---- MODULE Spec2Model ----
(***************************************************************************)
(* Model of the TextMessages high-level analyzer (src/util.py).            *)
(*                                                                         *)
(* Strings are sequences of code points (chr(v) is <<v>>), so that         *)
(* concatenation, length and equality of buffers are those of the Python   *)
(* strings.  Times are integers: one tick is the default packet timeout    *)
(* (0.5 ms).  None is the empty sequence and a frame f is held as <<f>>,   *)
(* for temp_frame and for the value decode returns.                        *)
(***************************************************************************)
EXTENDS Integers, Sequences, FiniteSets, TLC

VARIABLES temp_frame, prefix, delimiter, packet_timeout, last, pieces, run,
          hist, asked, heap, world

vars == <<temp_frame, prefix, delimiter, packet_timeout, last, pieces, run,
          hist, asked, heap, world>>

\* ------------------------------------------------------------------ bounds
\* Event timestamps range over 0..MaxTime.
MaxTime == 2
\* At most MaxPieces texts are appended to one pending frame.
MaxPieces == 2
\* At most MaxCalls decode calls are followed where the whole history of
\* a run is kept.
MaxCalls == 4

\* ------------------------------------------------------- program constants
\* A key that is not in a dictionary.
Absent == -1

None == <<>>

\* class attribute defaults
DefaultPrefix == ""
DefaultDelimiter == 10
DefaultPacketTimeout == 1

MESSAGE_PREFIX_SETTING == "Message Prefix (optional)"
PACKET_TIMEOUT_SETTING == "Packet Timeout [s]"
PACKET_DELIMITER_SETTING == "Packet Delimiter"

\* label -> code point of the delimiter character
DELIMITER_CHOICES ==
    [l \in {"New Line [\\n]", "Null [\\0]", "Space [' ']", "Semicolon [;]", "Tab [\\t]"} |->
        CASE l = "New Line [\\n]" -> 10
          [] l = "Null [\\0]"     -> 0
          [] l = "Space [' ']"    -> 32
          [] l = "Semicolon [;]"  -> 59
          [] l = "Tab [\\t]"      -> 9]

\* ------------------------------------------------------------ pure helpers
\* chr(value): a one-character string
Chr(value) == <<value>>

\* one lowercase hexadecimal digit, as a code point
HexDigit(d) == IF d < 10 THEN 48 + d ELSE 97 + (d - 10)

RECURSIVE HexDigits(_)
HexDigits(n) == IF n < 16 THEN <<HexDigit(n)>>
                ELSE HexDigits(n \div 16) \o <<HexDigit(n % 16)>>

\* hex(value): "0x" and the digits, no padding
Hex(value) == <<48, 120>> \o HexDigits(value)

\* "address: " + hex(value) + ";"
AddressText(value) ==
    <<97, 100, 100, 114, 101, 115, 115, 58, 32>> \o Hex(value) \o <<59>>

\* "unknown error."
UnknownError ==
    <<117, 110, 107, 110, 111, 119, 110, 32, 101, 114, 114, 111, 114, 46>>

\* ---------------------------------------------------------- frame helpers
\* mutant: the two times are taken the wrong way round
clear_stored_message_swapped(data) ==
    << [type |-> "message",
        start_time |-> data.end_time,
        end_time |-> data.start_time,
        str |-> <<>>] >>

\* mutant: the frame is made with the other frame type
clear_stored_message_error(data) ==
    << [type |-> "error",
        start_time |-> data.start_time,
        end_time |-> data.end_time,
        str |-> <<>>] >>

clear_stored_message(data) ==
    << [type |-> "message",
        start_time |-> data.start_time,
        end_time |-> data.end_time,
        str |-> <<>>] >>

\* mutant: the text is put in front of the buffer
append_char_front(tf, char) ==
    << [tf[1] EXCEPT !.str = char \o @] >>

append_char(tf, char) ==
    << [tf[1] EXCEPT !.str = @ \o char] >>

\* mutant: the length check is missing
have_existing_message_any(tf) ==
    IF tf = None THEN FALSE ELSE TRUE

have_existing_message(tf) ==
    IF tf = None THEN FALSE
    ELSE IF Len(tf[1].str) = 0 THEN FALSE
    ELSE TRUE

\* mutant: the end time is left where it was
update_end_time_stale(tf, data) ==
    << [tf[1] EXCEPT !.end_time = tf[1].end_time] >>

update_end_time(tf, data) ==
    << [tf[1] EXCEPT !.end_time = data.end_time] >>

\* ---------------------------------------------------------------- events
\* An input frame: type, start_time, end_time and the keys of data["data"]
\* the handlers read (Absent when the key is missing; for "data" also when
\* the value is not a bytes object).  data and address hold the first byte.
Event(type, start_time, end_time, value, data, address, miso, mosi) ==
    [type |-> type, start_time |-> start_time, end_time |-> end_time,
     value |-> value, data |-> data, address |-> address,
     miso |-> miso, mosi |-> mosi]

\* bytes a serial data frame carries: '\n', 'B'
SerialValues == {10, 66}
\* first byte of an I2C data frame: 'B'
I2CValues == {66}
\* I2C addresses: 0x42
AddressValues == {66}
\* SPI <<miso, mosi>>: both missing, both idle, miso idle and mosi '\n'
SpiValues == {<<Absent, Absent>>, <<0, 0>>, <<0, 10>>}

Times == {t \in [start_time : 0..MaxTime, end_time : 0..MaxTime] :
             t.start_time <= t.end_time}

SerialEvents ==
    {Event("data", t.start_time, t.end_time, v, Absent, Absent, Absent, Absent) :
        t \in Times, v \in SerialValues}
I2CDataEvents ==
    {Event("data", t.start_time, t.end_time, Absent, v, Absent, Absent, Absent) :
        t \in Times, v \in I2CValues}
AddressEvents ==
    {Event("address", t.start_time, t.end_time, Absent, Absent, v, Absent, Absent) :
        t \in Times, v \in AddressValues}
StartEvents ==
    {Event("start", t.start_time, t.end_time, Absent, Absent, Absent, Absent, Absent) :
        t \in Times}
StopEvents ==
    {Event("stop", t.start_time, t.end_time, Absent, Absent, Absent, Absent, Absent) :
        t \in Times}
SpiEvents ==
    {Event("result", t.start_time, t.end_time, Absent, Absent, Absent, v[1], v[2]) :
        t \in Times, v \in SpiValues}
\* a data frame with neither "value" nor a bytes "data", and a frame of a
\* type no handler knows
UnknownEvents ==
    {Event(ty, t.start_time, t.end_time, Absent, Absent, Absent, Absent, Absent) :
        t \in Times, ty \in {"data", "error"}}

NoData == Event("none", 0, 0, Absent, Absent, Absent, Absent, Absent)

\* ---------------------------------------------------------------- decode
\* mutant: a frame no handler recognises adds no text
DerivedCharSkipUnknown(data) ==
    LET char1 == IF data.type = "data" /\ data.value # Absent
                 THEN Chr(data.value) ELSE <<>>
        char2 == IF data.type = "data" /\ data.data # Absent
                 THEN Chr(data.data) ELSE char1
        miso  == IF data.miso # Absent /\ data.miso # 0
                 THEN Chr(data.miso) ELSE <<>>
        mosi  == IF data.mosi # Absent /\ data.mosi # 0
                 THEN Chr(data.mosi) ELSE <<>>
    IN  IF data.type = "result" THEN miso \o mosi ELSE char2

\* The text decode derives from a frame that is no address, start or stop.
DerivedChar(data) ==
    LET char0 == UnknownError
        char1 == IF data.type = "data" /\ data.value # Absent
                 THEN Chr(data.value) ELSE char0
        char2 == IF data.type = "data" /\ data.data # Absent
                 THEN Chr(data.data) ELSE char1
        miso  == IF data.miso # Absent /\ data.miso # 0
                 THEN Chr(data.miso) ELSE <<>>
        mosi  == IF data.mosi # Absent /\ data.mosi # 0
                 THEN Chr(data.mosi) ELSE <<>>
    IN  IF data.type = "result" THEN miso \o mosi ELSE char2

\* mutant: <= for <
TimeoutExpiredAtGap(tf, maximum_delay, frame_start) ==
    tf[1].end_time + maximum_delay <= frame_start

\* temp_frame["end_time"] + maximum_delay < frame_start
TimeoutExpired(tf, maximum_delay, frame_start) ==
    tf[1].end_time + maximum_delay < frame_start

\* char in delimiters, with delimiters = [self.delimiter]
IsDelimiter(char, delim) == char = Chr(delim)

Outcome(tf, ret, path) == [temp_frame |-> tf, ret |-> ret, path |-> path]

\* mutant: the annotation joins the existing message, which is not sent
HandleAddressNoFlush(tf, data) ==
    Outcome(append_char(tf, AddressText(data.address)), None, "address")

\* mutant: the annotation opens the next message in the frame that is sent,
\* which keeps its times
HandleAddressKeepsTimes(tf, data) ==
    IF have_existing_message(tf)
    THEN Outcome(<< [tf[1] EXCEPT !.str = AddressText(data.address)] >>,
                 tf, "address_flush")
    ELSE Outcome(append_char(tf, AddressText(data.address)), None, "address")

\* handle I2C address
HandleAddress(tf, data) ==
    IF have_existing_message(tf)
    THEN Outcome(append_char(clear_stored_message(data), AddressText(data.address)),
                 tf, "address_flush")
    ELSE Outcome(append_char(tf, AddressText(data.address)), None, "address")

\* handle I2C stop condition
HandleStop(tf) ==
    IF have_existing_message(tf)
    THEN Outcome(None, tf, "stop_flush")
    ELSE Outcome(None, None, "stop")

\* mutant: the next frame is opened empty, the character is dropped
TimeoutFlushDropsChar(tf, data, char) ==
    Outcome(clear_stored_message(data), tf, "timeout")

\* the timeout event: commit the frame, the character opens the next one
TimeoutFlush(tf, data, char) ==
    Outcome(append_char(clear_stored_message(data), char), tf, "timeout")

\* append, move the end time, commit on a delimiter
AppendChar(tf, data, char, delim) ==
    LET tf2 == update_end_time(append_char(tf, char), data)
    IN  IF IsDelimiter(char, delim)
        THEN Outcome(None, tf2, "delimiter")
        ELSE Outcome(tf2, None, "append")

\* mutant: the timeout branch does not return, and runs on into the append
\* and the delimiter check
decode_fallthrough(tf0, delim, maximum_delay, data) ==
    LET first_frame == (tf0 = None)
        tf   == IF first_frame THEN clear_stored_message(data) ELSE tf0
        char == DerivedChar(data)
    IN  IF data.type = "address" THEN HandleAddress(tf, data)
        ELSE IF data.type = "start" THEN Outcome(tf, None, "start")
        ELSE IF data.type = "stop" THEN HandleStop(tf)
        ELSE IF ~first_frame /\ tf # None
                /\ TimeoutExpired(tf, maximum_delay, data.start_time)
             THEN AppendChar(TimeoutFlush(tf, data, char).temp_frame, data, char, delim)
        ELSE AppendChar(tf, data, char, delim)

decode(tf0, delim, maximum_delay, data) ==
    LET first_frame == (tf0 = None)
        tf   == IF first_frame THEN clear_stored_message(data) ELSE tf0
        char == DerivedChar(data)
    IN  IF data.type = "address" THEN HandleAddress(tf, data)
        ELSE IF data.type = "start" THEN Outcome(tf, None, "start")
        ELSE IF data.type = "stop" THEN HandleStop(tf)
        ELSE IF ~first_frame /\ tf # None
                /\ TimeoutExpired(tf, maximum_delay, data.start_time)
             THEN TimeoutFlush(tf, data, char)
        ELSE AppendChar(tf, data, char, delim)

\* the pending buffer, empty when there is no pending frame
Buffer(tf) == IF tf = None THEN <<>> ELSE tf[1].str

\* A frame that is no address, start or stop: its text goes to the buffer.
IsCharacterEvent(data) == data.type \notin {"address", "start", "stop"}

\* The gap between the pending frame and the event exceeds the timeout.
TimeoutGap(tf, maximum_delay, data) ==
    tf # None /\ tf[1].end_time + maximum_delay < data.start_time

\* The event continues a run: no boundary event, no delimiter, no gap.
RunContinues(tf, delim, maximum_delay, data) ==
    /\ IsCharacterEvent(data)
    /\ DerivedChar(data) # <<delim>>
    /\ ~TimeoutGap(tf, maximum_delay, data)

\* The run after a call: the buffer the run started from, the texts derived
\* from its events, their number, and whether every call returned nothing.
RunAfter(r, tf, delim, maximum_delay, data, out) ==
    IF RunContinues(tf, delim, maximum_delay, data)
    THEN [base |-> r.base, chars |-> r.chars \o DerivedChar(data),
          n |-> r.n + 1, quiet |-> r.quiet /\ out.ret = None]
    ELSE [base |-> Buffer(out.temp_frame), chars |-> <<>>, n |-> 0, quiet |-> TRUE]

\* number of texts appended to the pending frame after the call
PiecesAfter(out, n) ==
    IF out.temp_frame = None THEN 0
    ELSE IF out.path \in {"address_flush", "timeout"} THEN 1
    ELSE IF out.path = "start" THEN n
    ELSE n + 1

\* ----------------------------------------------------------- set_settings
\* A settings dictionary: each key is present or missing (NoKey / Absent).
\* The delimiter selection is a known label, an unknown one, or missing.
NoKey == "<no key>"
PrefixInputs == {""}
TimeoutInputs == {1}
DelimiterInputs == {NoKey, "New Line [\\n]", "Semicolon [;]", "Carriage Return [\\r]"}

Settings == [prefix : PrefixInputs, timeout : TimeoutInputs, delimiter : DelimiterInputs]

result_types(pfx) ==
    [error |-> "Error!", message |-> pfx \o "{{data.str}}"]

NoResultTypes == [error |-> "", message |-> ""]

set_prefix(settings, old) ==
    IF settings.prefix # NoKey THEN settings.prefix ELSE old

set_packet_timeout(settings, old) ==
    IF settings.timeout # Absent THEN settings.timeout ELSE old

\* mutant: a selection that is not a label puts the default delimiter back
set_delimiter_default(settings, old) ==
    IF settings.delimiter = NoKey THEN old
    ELSE IF settings.delimiter \in DOMAIN DELIMITER_CHOICES
    THEN DELIMITER_CHOICES[settings.delimiter] ELSE DefaultDelimiter

set_delimiter(settings, old) ==
    IF settings.delimiter # NoKey /\ settings.delimiter \in DOMAIN DELIMITER_CHOICES
    THEN DELIMITER_CHOICES[settings.delimiter] ELSE old

\* ------------------------------------------------------------ the machine
\* hist, asked, heap and world belong to the specifications further down;
\* here they keep their first value.
Idle == "idle"

Init ==
    /\ hist = Idle /\ asked = Idle /\ heap = Idle /\ world = Idle
    /\ temp_frame = None
    /\ prefix = DefaultPrefix
    /\ delimiter = DefaultDelimiter
    /\ packet_timeout = DefaultPacketTimeout
    /\ pieces = 0
    /\ run = [base |-> <<>>, chars |-> <<>>, n |-> 0, quiet |-> TRUE]
    /\ last = [op |-> "init", data |-> NoData, ret |-> None, path |-> "none",
               result_types |-> NoResultTypes]

SetSettings(settings) ==
    /\ prefix' = set_prefix(settings, prefix)
    /\ packet_timeout' = set_packet_timeout(settings, packet_timeout)
    /\ delimiter' = set_delimiter(settings, delimiter)
    /\ last' = [op |-> "set_settings", data |-> NoData, ret |-> None, path |-> "none",
                result_types |-> result_types(prefix')]
    /\ UNCHANGED <<temp_frame, pieces, run>>

Decode(data) ==
    \E out \in {decode(temp_frame, delimiter, packet_timeout, data)} :
        /\ PiecesAfter(out, pieces) <= MaxPieces
        /\ temp_frame' = out.temp_frame
        /\ pieces' = PiecesAfter(out, pieces)
        /\ run' = RunAfter(run, temp_frame, delimiter, packet_timeout, data, out)
        /\ last' = [op |-> "decode", data |-> data, ret |-> out.ret, path |-> out.path,
                    result_types |-> NoResultTypes]
        /\ UNCHANGED <<prefix, delimiter, packet_timeout>>

Reset == \E settings \in Settings : SetSettings(settings)
DecodeSerial == \E data \in SerialEvents : Decode(data)
DecodeI2CData == \E data \in I2CDataEvents : Decode(data)
DecodeAddress == \E data \in AddressEvents : Decode(data)
DecodeStart == \E data \in StartEvents : Decode(data)
DecodeStop == \E data \in StopEvents : Decode(data)
DecodeSpi == \E data \in SpiEvents : Decode(data)
DecodeUnknown == \E data \in UnknownEvents : Decode(data)

Frozen == UNCHANGED <<hist, asked, heap, world>>

Next ==
    \/ Reset /\ Frozen
    \/ DecodeSerial /\ Frozen
    \/ DecodeI2CData /\ Frozen
    \/ DecodeAddress /\ Frozen
    \/ DecodeStart /\ Frozen
    \/ DecodeStop /\ Frozen
    \/ DecodeSpi /\ Frozen
    \/ DecodeUnknown /\ Frozen

Spec == Init /\ [][Next]_vars

TypeOK ==
    /\ Len(temp_frame) <= 1
    /\ Len(last.ret) <= 1
    /\ pieces \in 0..MaxPieces

\* ------------------------------------------------------------- properties
\* The properties of one call are action properties: temp_frame, delimiter
\* and packet_timeout are the state before the call, temp_frame' the state
\* after it, last'.data the event and last'.ret what the call returned.  A
\* call that leaves every variable as it was is also taken from the state
\* a set_settings that changes no setting leads to, where it changes last,
\* so no call is left out.
Call == last'.op = "decode"
Ev == last'.data
Char == DerivedChar(last'.data)
Returned == last'.ret

Frame(start_time, end_time, str) ==
    << [type |-> "message", start_time |-> start_time, end_time |-> end_time,
        str |-> str] >>

\* "address: 0x42;" and "address: 0x5;" written out
Annotation(b) ==
    CASE b = 66 -> <<97, 100, 100, 114, 101, 115, 115, 58, 32, 48, 120, 52, 50, 59>>
      [] b = 5  -> <<97, 100, 100, 114, 101, 115, 115, 58, 32, 48, 120, 53, 59>>

\* C1: on a character event with no timeout flush, a text equal to the
\* delimiter returns one frame: the buffer before the call and the
\* delimiter, from the pending frame's start_time (the event's when there
\* was no frame) to the event's end_time, and no frame is pending after;
\* any other text returns nothing.
C1_DelimiterFlush ==
    [][ (Call /\ IsCharacterEvent(Ev)
              /\ ~TimeoutGap(temp_frame, packet_timeout, Ev))
        => IF Char = <<delimiter>>
           THEN /\ Returned =
                     Frame(IF temp_frame = None THEN Ev.start_time
                           ELSE temp_frame[1].start_time,
                           Ev.end_time,
                           Buffer(temp_frame) \o <<delimiter>>)
                /\ temp_frame' = None
           ELSE Returned = None ]_vars

C1_Witness ==
    /\ last.op = "decode"
    /\ last.path = "delimiter"
    /\ temp_frame = None
    /\ Len(last.ret[1].str) >= 2
    /\ last.ret[1].start_time < last.data.start_time

\* C2: on a character event with a frame pending, end_time + timeout <
\* start_time returns the pending frame as it was and leaves a new frame
\* holding the event's text and times; otherwise (a gap equal to the timeout
\* included) there is no timeout flush and the text is appended to the
\* existing buffer.
C2_TimeoutFlush ==
    [][ (Call /\ IsCharacterEvent(Ev) /\ temp_frame # None)
        => IF temp_frame[1].end_time + packet_timeout < Ev.start_time
           THEN /\ Returned = temp_frame
                /\ temp_frame' = Frame(Ev.start_time, Ev.end_time, Char)
           ELSE /\ last'.path # "timeout"
                /\ LET held == IF temp_frame' = None THEN Returned ELSE temp_frame'
                   IN  /\ held # None
                       /\ held[1].str = temp_frame[1].str \o Char
                       /\ held[1].start_time = temp_frame[1].start_time ]_vars

C2_Witness ==
    /\ last.op = "decode"
    /\ last.path = "timeout"
    /\ last.ret # None
    /\ Len(last.ret[1].str) > 0
    /\ temp_frame = Frame(last.data.start_time, last.data.end_time,
                          DerivedChar(last.data))
    /\ Len(DerivedChar(last.data)) > 0

\* C3: during a run of events with no text equal to the delimiter, no
\* timeout gap and no address, start or stop, every call returns nothing and
\* the buffer is the buffer the run started from followed by the texts
\* derived from the run's events, in arrival order.
C3_Accumulation ==
    /\ run.quiet
    /\ Buffer(temp_frame) = run.base \o run.chars

C3_Witness ==
    /\ run.n = 2
    /\ Len(run.chars) = 2
    /\ run.chars[1] # run.chars[2]
    /\ delimiter = 59
    /\ Buffer(temp_frame) = run.chars

\* C4: an address event with a non-empty buffer pending returns the pending
\* frame as it was, whatever the gap, and leaves a new frame holding the
\* annotation and the event's times; with no frame pending it returns
\* nothing and the buffer is the annotation.  The frame stays pending: the
\* annotation's ';' is not taken for the delimiter.
C4_AddressBoundary ==
    [][ (Call /\ Ev.type = "address")
        => /\ (temp_frame # None /\ Len(Buffer(temp_frame)) > 0)
                => /\ Returned = temp_frame
                   /\ temp_frame' = Frame(Ev.start_time, Ev.end_time,
                                          Annotation(Ev.address))
           /\ temp_frame = None
                => /\ Returned = None
                   /\ temp_frame' # None
                   /\ temp_frame'[1].str = Annotation(Ev.address) ]_vars

C4_Witness ==
    /\ last.op = "decode"
    /\ last.data.type = "address"
    /\ last.ret # None
    /\ delimiter = 59
    /\ temp_frame # None
    /\ last.ret[1].end_time + packet_timeout >= last.data.start_time

\* C5: a stop event with a non-empty buffer pending returns the pending
\* frame as it was (its end_time is not the stop's) and leaves no frame;
\* with no frame or an empty buffer it returns nothing and leaves no frame.
C5_StopBoundary ==
    [][ (Call /\ Ev.type = "stop")
        => /\ temp_frame' = None
           /\ IF temp_frame # None /\ Len(Buffer(temp_frame)) > 0
              THEN Returned = temp_frame
              ELSE Returned = None ]_vars

C5_Witness ==
    /\ last.op = "decode"
    /\ last.data.type = "stop"
    /\ temp_frame = None
    /\ last.ret # None
    /\ last.ret[1].end_time < last.data.end_time

\* C6: set_settings leaves no frame pending.
C6_ResetDiscardsPending ==
    last.op = "set_settings" => temp_frame = None

\* C7: the first event decoded after set_settings never takes the timeout
\* flush; nor does an event decoded while no frame is pending.
C7_Bootstrap ==
    [][ (Call /\ (last.op = "set_settings" \/ temp_frame = None))
        => last'.path # "timeout" ]_vars

\* C8: a start event returns nothing and leaves the pending frame as it was.
C8_StartNoOp ==
    [][ (Call /\ Ev.type = "start")
        => (Returned = None /\ temp_frame' = temp_frame) ]_vars

\* C9: a result event with miso and mosi both zero or missing returns
\* nothing and leaves the pending frame as it was.
C9_SpiIdleNoOp ==
    [][ (Call /\ Ev.type = "result"
              /\ Ev.miso \in {Absent, 0} /\ Ev.mosi \in {Absent, 0})
        => (Returned = None /\ temp_frame' = temp_frame) ]_vars

\* C10: a call returns at most one frame; a timeout flush on a text equal
\* to the delimiter returns the old pending frame only, and the new frame,
\* holding the delimiter alone, stays pending.
C10_OneFlushPerCall ==
    [][ Call
        => /\ Len(Returned) <= 1
           /\ (IsCharacterEvent(Ev) /\ Char = <<delimiter>>
                 /\ TimeoutGap(temp_frame, packet_timeout, Ev))
                => /\ Returned = temp_frame
                   /\ temp_frame' = Frame(Ev.start_time, Ev.end_time, <<delimiter>>) ]_vars

C10_Witness ==
    /\ last.op = "decode"
    /\ last.path = "timeout"
    /\ Len(last.ret) = 1
    /\ Len(last.ret[1].str) > 0
    /\ temp_frame # None
    /\ temp_frame[1].str = <<delimiter>>

\* C12: every frame a call returns is of type "message".
C12_OnlyMessageFrames ==
    \A i \in 1..Len(last.ret) : last.ret[i].type = "message"

C12_Witness ==
    /\ last.op = "decode"
    /\ last.path = "stop_flush"
    /\ Len(last.ret) = 1
    /\ last.ret[1].type = "message"
    /\ delimiter = 59

\* C14: a frame no handler recognises is decoded as the text
\* "unknown error.": after a timeout gap the pending frame is returned and
\* the text opens the next frame, otherwise the text is appended (or opens
\* the first frame) and nothing is returned; it is never a delimiter.
C14_UnknownEventText ==
    [][ (Call /\ Ev \in UnknownEvents)
        => IF TimeoutGap(temp_frame, packet_timeout, Ev)
           THEN /\ Returned = temp_frame
                /\ temp_frame' = Frame(Ev.start_time, Ev.end_time, UnknownError)
           ELSE /\ Returned = None
                /\ temp_frame' =
                     Frame(IF temp_frame = None THEN Ev.start_time
                           ELSE temp_frame[1].start_time,
                           Ev.end_time,
                           Buffer(temp_frame) \o UnknownError) ]_vars

C14_Witness ==
    /\ last.op = "decode"
    /\ last.data \in UnknownEvents
    /\ last.data.type = "error"
    /\ last.path = "append"
    /\ temp_frame # None
    /\ Len(temp_frame[1].str) > Len(UnknownError)

\* C19: every frame a call returns has a non-empty str.
C19_NoEmptyFrames ==
    \A i \in 1..Len(last.ret) : Len(last.ret[i].str) > 0

\* ------------------------------------------------- the history of a stream
\* SpecHist follows one stream of frames from construction, with no
\* set_settings call, delivered in time order: each frame starts no earlier
\* than the one before it started and ends no earlier than the one before
\* it ended.  hist keeps what the calls were given and what they returned.
\*   calls      number of decode calls
\*   begun      start_time of the latest frame
\*   clock      end_time of the latest frame
\*   disjoint   every frame so far started no earlier than the one before
\*              it ended
\*   derived    the texts derived from the frames, in arrival order
\*   emitted    the str of the returned frames, in the order returned
\*   n_emitted  number of returned frames
\*   last_end   end_time of the latest returned frame
\*   prev_end   last_end as it was before the latest call
\*   first, final   start_time of the first and end_time of the last frame
\*              that put text in the pending frame (Absent when none did)
\*   ret_first, ret_final   the same for the frame the latest call returned
HistEvents ==
    SerialEvents \cup AddressEvents \cup StartEvents \cup StopEvents
        \cup {e \in SpiEvents : e.miso = 0 /\ e.mosi = 0}

\* The text a frame contributes: the annotation, nothing, or the character.
DerivedText(data) ==
    IF data.type = "address" THEN Annotation(data.address)
    ELSE IF data.type \in {"start", "stop"} THEN <<>>
    ELSE DerivedChar(data)

Emitted(ret) == IF ret = None THEN <<>> ELSE ret[1].str

HistAfter(h, data, out) ==
    LET text    == DerivedText(data)
        gives   == Len(text) > 0
        own     == [first |-> IF gives THEN data.start_time ELSE Absent,
                    final |-> IF gives THEN data.end_time ELSE Absent]
        joined  == [first |-> IF ~gives \/ h.first # Absent THEN h.first
                              ELSE data.start_time,
                    final |-> IF gives THEN data.end_time ELSE h.final]
        nobody  == [first |-> Absent, final |-> Absent]
        before  == [first |-> h.first, final |-> h.final]
        pending == CASE out.path \in {"address_flush", "timeout"} -> own
                     [] out.path \in {"address", "append"} -> joined
                     [] out.path = "start" -> before
                     [] OTHER -> nobody
        sent    == CASE out.path \in {"address_flush", "timeout", "stop_flush"} -> before
                     [] out.path = "delimiter" -> joined
                     [] OTHER -> nobody
    IN  [calls |-> h.calls + 1,
         begun |-> data.start_time,
         clock |-> data.end_time,
         disjoint |-> h.disjoint /\ data.start_time >= h.clock,
         derived |-> h.derived \o text,
         emitted |-> h.emitted \o Emitted(out.ret),
         n_emitted |-> h.n_emitted + Len(out.ret),
         prev_end |-> IF h.n_emitted = 0 THEN Absent ELSE h.last_end,
         last_end |-> IF out.ret = None THEN h.last_end ELSE out.ret[1].end_time,
         first |-> pending.first, final |-> pending.final,
         ret_first |-> sent.first, ret_final |-> sent.final]

InitHist ==
    /\ temp_frame = None
    /\ prefix = DefaultPrefix
    /\ delimiter = DefaultDelimiter
    /\ packet_timeout = DefaultPacketTimeout
    /\ pieces = 0
    /\ run = [base |-> <<>>, chars |-> <<>>, n |-> 0, quiet |-> TRUE]
    /\ last = [op |-> "init", data |-> NoData, ret |-> None, path |-> "none",
               result_types |-> NoResultTypes]
    /\ hist = [calls |-> 0, begun |-> 0, clock |-> 0, disjoint |-> TRUE,
               derived |-> <<>>, emitted |-> <<>>,
               n_emitted |-> 0, prev_end |-> Absent, last_end |-> Absent,
               first |-> Absent, final |-> Absent,
               ret_first |-> Absent, ret_final |-> Absent]
    /\ asked = Idle /\ heap = Idle /\ world = Idle

DecodeHist(data) ==
    /\ hist.calls < MaxCalls
    /\ data.start_time >= hist.begun
    /\ data.end_time >= hist.clock
    /\ \E out \in {decode(temp_frame, delimiter, packet_timeout, data)} :
        /\ temp_frame' = out.temp_frame
        /\ last' = [op |-> "decode", data |-> data, ret |-> out.ret,
                    path |-> out.path, result_types |-> NoResultTypes]
        /\ hist' = HistAfter(hist, data, out)
    /\ UNCHANGED <<prefix, delimiter, packet_timeout, pieces, run, asked, heap, world>>

HistSerial == \E data \in HistEvents : data.type = "data" /\ DecodeHist(data)
HistAddress == \E data \in HistEvents : data.type = "address" /\ DecodeHist(data)
HistStart == \E data \in HistEvents : data.type = "start" /\ DecodeHist(data)
HistStop == \E data \in HistEvents : data.type = "stop" /\ DecodeHist(data)
HistSpi == \E data \in HistEvents : data.type = "result" /\ DecodeHist(data)

NextHist ==
    \/ HistSerial
    \/ HistAddress
    \/ HistStart
    \/ HistStop
    \/ HistSpi

SpecHist == InitHist /\ [][NextHist]_vars

\* C11: with frames delivered in time order (start times and end times both
\* non-decreasing), each ending no earlier than it starts, a pending frame has end_time >= start_time, and while it stays
\* pending (the call returns nothing and a frame was and is pending) its
\* start_time stays and its end_time does not decrease.
C11_PendingTimes ==
    [][ Call
        => /\ temp_frame' # None
                => temp_frame'[1].end_time >= temp_frame'[1].start_time
           /\ (temp_frame # None /\ temp_frame' # None /\ Returned = None)
                => /\ temp_frame'[1].start_time = temp_frame[1].start_time
                   /\ temp_frame'[1].end_time >= temp_frame[1].end_time ]_vars

C11_Witness ==
    /\ hist.calls >= 2
    /\ ~hist.disjoint
    /\ last.path = "append"
    /\ temp_frame # None
    /\ Len(temp_frame[1].str) >= 2
    /\ temp_frame[1].start_time < last.data.start_time
    /\ temp_frame[1].end_time = last.data.end_time
    /\ last.data.start_time < last.data.end_time

\* C17: with no set_settings call, the str of the returned frames in the
\* order returned, followed by the pending buffer, is the text derived from
\* the frames in arrival order.
C17_Conservation ==
    hist.emitted \o Buffer(temp_frame) = hist.derived

C17_Witness ==
    /\ hist.n_emitted = 2
    /\ Len(hist.emitted) >= 3
    /\ Len(Buffer(temp_frame)) > 0
    /\ hist.emitted \o Buffer(temp_frame) = hist.derived

\* C18: a returned frame that holds text starts with the first frame that
\* put text in it and ends with the last one that did (checked on streams
\* whose frames do not overlap).
C18_FrameTimesMatchText ==
    (last.ret # None /\ hist.ret_first # Absent /\ hist.disjoint)
        => /\ last.ret[1].start_time = hist.ret_first
           /\ last.ret[1].end_time = hist.ret_final

\* C20: with frames delivered so that each starts no earlier than the one
\* before it ended, a returned frame has end_time >= start_time and starts
\* no earlier than the frame returned before it ended.
C20_OrderedFrames ==
    [][ (Call /\ Returned # None /\ hist'.disjoint)
        => /\ Returned[1].end_time >= Returned[1].start_time
           /\ hist.n_emitted > 0 => Returned[1].start_time >= hist.last_end ]_vars

C20_Witness ==
    /\ hist.n_emitted = 2
    /\ hist.disjoint
    /\ last.ret # None
    /\ hist.prev_end # Absent
    /\ last.ret[1].start_time > hist.prev_end
    /\ last.ret[1].end_time > last.ret[1].start_time

\* ------------------------------------------------- the settings of a call
\* SpecSettings passes set_settings every combination of a missing, a first
\* and a second value for the prefix and the timeout, and a missing, a
\* known or an unknown delimiter selection.  asked keeps the settings of
\* the latest set_settings call and the delimiter that was in force when it
\* was made.
WidePrefixInputs == {NoKey, "", "> "}
WideTimeoutInputs == {Absent, 1, 2}
WideDelimiterInputs == {NoKey, "Semicolon [;]", "Carriage Return [\\r]"}

WideSettings ==
    [prefix : WidePrefixInputs, timeout : WideTimeoutInputs,
     delimiter : WideDelimiterInputs]

SettingsEvents ==
    {Event("data", t, t, v, Absent, Absent, Absent, Absent) : t \in 0..MaxTime, v \in {10, 59}}

UnknownSelection(settings) ==
    /\ settings.delimiter # NoKey
    /\ settings.delimiter \notin DOMAIN DELIMITER_CHOICES

InitSettings ==
    /\ temp_frame = None
    /\ prefix = DefaultPrefix
    /\ delimiter = DefaultDelimiter
    /\ packet_timeout = DefaultPacketTimeout
    /\ pieces = 0
    /\ run = [base |-> <<>>, chars |-> <<>>, n |-> 0, quiet |-> TRUE]
    /\ last = [op |-> "init", data |-> NoData, ret |-> None, path |-> "none",
               result_types |-> NoResultTypes]
    /\ asked = [settings |-> [prefix |-> NoKey, timeout |-> Absent, delimiter |-> NoKey],
                before |-> DefaultDelimiter]
    /\ hist = Idle /\ heap = Idle /\ world = Idle

ResetWide ==
    \E settings \in WideSettings :
        /\ SetSettings(settings)
        /\ asked' = [settings |-> settings, before |-> delimiter]
        /\ UNCHANGED <<hist, heap, world>>

DecodeSettings ==
    \E data \in SettingsEvents :
        \E out \in {decode(temp_frame, delimiter, packet_timeout, data)} :
            /\ PiecesAfter(out, pieces) <= MaxPieces
            /\ temp_frame' = out.temp_frame
            /\ pieces' = PiecesAfter(out, pieces)
            /\ last' = [op |-> "decode", data |-> data, ret |-> out.ret,
                        path |-> out.path, result_types |-> NoResultTypes]
            /\ UNCHANGED <<prefix, delimiter, packet_timeout, run, asked, hist, heap, world>>

NextSettings ==
    \/ ResetWide
    \/ DecodeSettings

SpecSettings == InitSettings /\ [][NextSettings]_vars

\* C13: a set_settings call whose delimiter selection is not one of the
\* labels leaves the delimiter as it was, installs the prefix and the
\* timeout it was passed and returns the two format strings; the decode
\* calls after it flush on the delimiter that was in force before it, and
\* on no other character.
C13_UnknownDelimiter ==
    [][ /\ (last'.op = "set_settings" /\ UnknownSelection(asked'.settings))
            => /\ delimiter' = delimiter
               /\ asked'.settings.prefix # NoKey => prefix' = asked'.settings.prefix
               /\ asked'.settings.timeout # Absent
                    => packet_timeout' = asked'.settings.timeout
               /\ last'.result_types =
                    [error |-> "Error!", message |-> prefix' \o "{{data.str}}"]
        /\ (Call /\ UnknownSelection(asked.settings)
                 /\ ~TimeoutGap(temp_frame, packet_timeout, Ev))
            => (last'.path = "delimiter" <=> Char = <<asked.before>>) ]_vars

C13_Witness ==
    /\ asked.settings = [prefix |-> "> ", timeout |-> 2,
                         delimiter |-> "Carriage Return [\\r]"]
    /\ asked.before = 59
    /\ delimiter = 59 /\ prefix = "> " /\ packet_timeout = 2
    /\ last.op = "decode" /\ last.path = "delimiter"
    /\ last.data.value = 59
    /\ Len(last.ret[1].str) >= 2

\* ------------------------------------------------------ frames as objects
\* SpecHeap keeps the frames as the objects they are in the program.
\*   heap.objs      the frame objects made so far; object i is heap.objs[i]
\*   heap.pending   the object self.temp_frame refers to, 0 for None
\*   heap.emitted   for each returned frame, in order: the object that was
\*                  returned and its fields when the call returned
\*   heap.calls     number of decode calls
\*   heap.clock     end_time of the latest frame; frames come in time order
Deref(h) == IF h.pending = 0 THEN None ELSE << h.objs[h.pending] >>

\* mutant: the fields of the object at hand are set again, no object is made
new_frame_in_place(h, data) ==
    IF h.pending = 0
    THEN [h EXCEPT !.objs = Append(@, clear_stored_message(data)[1]),
                   !.pending = Len(h.objs) + 1]
    ELSE [h EXCEPT !.objs[h.pending] = clear_stored_message(data)[1]]

\* self.temp_frame = {...}: a new object, and temp_frame refers to it
new_frame(h, data) ==
    [h EXCEPT !.objs = Append(@, clear_stored_message(data)[1]),
              !.pending = Len(h.objs) + 1]

\* self.temp_frame[...] = ...: a write to the object temp_frame refers to
write_frame(h, tf) == [h EXCEPT !.objs[h.pending] = tf[1]]

\* self.temp_frame = None
drop_frame(h) == [h EXCEPT !.pending = 0]

HeapOutcome(h, ret) == [heap |-> h, ret |-> ret]

\* decode, statement by statement, on the objects; ret is the object
\* returned, 0 for None
decode_heap(h0, delim, maximum_delay, data) ==
    LET first_frame == (h0.pending = 0)
        h    == IF first_frame THEN new_frame(h0, data) ELSE h0
        char == DerivedChar(data)
        held == h.pending
        annotate(g) == write_frame(g, append_char(Deref(g), AddressText(data.address)))
        opened(g) == write_frame(g, append_char(Deref(g), char))
        appended == write_frame(h, update_end_time(append_char(Deref(h), char), data))
    IN  IF data.type = "address"
        THEN IF have_existing_message(Deref(h))
             THEN HeapOutcome(annotate(new_frame(h, data)), held)
             ELSE HeapOutcome(annotate(h), 0)
        ELSE IF data.type = "start" THEN HeapOutcome(h, 0)
        ELSE IF data.type = "stop"
        THEN IF have_existing_message(Deref(h))
             THEN HeapOutcome(drop_frame(h), held)
             ELSE HeapOutcome(drop_frame(h), 0)
        ELSE IF ~first_frame /\ TimeoutExpired(Deref(h), maximum_delay, data.start_time)
        THEN HeapOutcome(opened(new_frame(h, data)), held)
        ELSE IF IsDelimiter(char, delim) THEN HeapOutcome(drop_frame(appended), held)
        ELSE HeapOutcome(appended, 0)

\* frames at the two ends of the time range, close together or a timeout apart
HeapEvents ==
    {e \in SerialEvents \cup AddressEvents \cup StartEvents \cup StopEvents :
        e.start_time = e.end_time /\ e.start_time \in {0, MaxTime}}

InitHeap ==
    /\ temp_frame = None
    /\ prefix = DefaultPrefix
    /\ delimiter = DefaultDelimiter
    /\ packet_timeout = DefaultPacketTimeout
    /\ pieces = 0
    /\ run = [base |-> <<>>, chars |-> <<>>, n |-> 0, quiet |-> TRUE]
    /\ last = [op |-> "init", data |-> NoData, ret |-> None, path |-> "none",
               result_types |-> NoResultTypes]
    /\ heap = [objs |-> <<>>, pending |-> 0, emitted |-> <<>>, calls |-> 0,
               clock |-> 0]
    /\ hist = Idle /\ asked = Idle /\ world = Idle

\* The caller keeps the object the call returns; its fields are read when
\* the call has returned.
DecodeHeap(data) ==
    /\ heap.calls < MaxCalls
    /\ data.start_time >= heap.clock
    /\ \E out \in {decode_heap(heap, delimiter, packet_timeout, data)},
          val \in {decode(temp_frame, delimiter, packet_timeout, data)} :
        /\ temp_frame' = val.temp_frame
        /\ last' = [op |-> "decode", data |-> data, ret |-> val.ret,
                    path |-> val.path, result_types |-> NoResultTypes]
        /\ heap' = [out.heap EXCEPT
                      !.calls = @ + 1,
                      !.clock = data.end_time,
                      !.emitted = IF out.ret = 0 THEN @
                                  ELSE Append(@, [obj |-> out.ret,
                                                  frame |-> out.heap.objs[out.ret]])]
    /\ UNCHANGED <<prefix, delimiter, packet_timeout, pieces, run, hist, asked, world>>

HeapReset ==
    /\ \E settings \in Settings : SetSettings(settings)
    /\ UNCHANGED <<heap, hist, asked, world>>

HeapSerial == \E data \in HeapEvents : data.type = "data" /\ DecodeHeap(data)
HeapAddress == \E data \in HeapEvents : data.type = "address" /\ DecodeHeap(data)
HeapStart == \E data \in HeapEvents : data.type = "start" /\ DecodeHeap(data)
HeapStop == \E data \in HeapEvents : data.type = "stop" /\ DecodeHeap(data)

NextHeap ==
    \/ HeapReset
    \/ HeapSerial
    \/ HeapAddress
    \/ HeapStart
    \/ HeapStop

SpecHeap == InitHeap /\ [][NextHeap]_vars

\* The objects hold what decode computes on values: the pending object is
\* temp_frame, and the object returned last is what the call returned.
HeapAgrees ==
    /\ temp_frame = Deref(heap)
    /\ (last.op = "decode" /\ last.ret # None)
        => /\ Len(heap.emitted) > 0
           /\ heap.emitted[Len(heap.emitted)].frame = last.ret[1]

\* C15: a frame a decode call returned keeps the start_time, end_time, type
\* and str it had when it was returned, through every later decode and
\* set_settings call, and temp_frame never refers to a returned frame.
C15_NoAliasing ==
    \A i \in 1..Len(heap.emitted) :
        /\ heap.objs[heap.emitted[i].obj] = heap.emitted[i].frame
        /\ heap.pending # heap.emitted[i].obj

C15_Witness ==
    /\ Len(heap.emitted) >= 2
    /\ heap.emitted[1].obj # heap.emitted[2].obj
    /\ heap.pending # 0
    /\ Len(heap.objs[heap.pending].str) > 0
    /\ delimiter = 59
    /\ last.op = "decode" /\ last.ret = None

\* ----------------------------------------------------------- two instances
\* SpecTwo runs two TextMessages objects whose calls come in any order.
\*   world.cls      the attributes of the class
\*   world.inst     per object, the attributes set on the object itself; an
\*                  attribute that is not set is read from the class
\*   world.solo     per object, the state of the same calls made on an
\*                  object that is alone
\*   world.ret, world.types       what the latest call returned
\*   world.solo_ret, world.solo_types   what it returned to the lone object
\*   world.who      the object of the latest call, world.calls their number
Instances == {1, 2}

ClassAttributes ==
    [temp_frame |-> None, prefix |-> DefaultPrefix,
     delimiter |-> DefaultDelimiter, packet_timeout |-> DefaultPacketTimeout]

NotSet(attr) == [set |-> FALSE, val |-> ClassAttributes[attr]]

\* self.attr read: the object's own attribute, else the attribute of the class
getattr(w, i, attr) ==
    IF w.inst[i][attr].set THEN w.inst[i][attr].val ELSE w.cls[attr]

\* mutant: the assignment goes to the class
setattr_class(w, i, attr, val) == [w EXCEPT !.cls[attr] = val]

\* self.attr = val: sets the attribute on the object
setattr(w, i, attr, val) == [w EXCEPT !.inst[i][attr] = [set |-> TRUE, val |-> val]]

\* each key missing or holding a value that is not the default
TwoSettings ==
    [prefix : {NoKey, "> "}, timeout : {Absent, 2},
     delimiter : {NoKey, "Semicolon [;]"}]

TwoEvents ==
    {e \in SerialEvents : e.start_time = e.end_time /\ e.start_time \in {0, MaxTime}}

InitTwo ==
    /\ temp_frame = None
    /\ prefix = DefaultPrefix
    /\ delimiter = DefaultDelimiter
    /\ packet_timeout = DefaultPacketTimeout
    /\ pieces = 0
    /\ run = [base |-> <<>>, chars |-> <<>>, n |-> 0, quiet |-> TRUE]
    /\ last = [op |-> "init", data |-> NoData, ret |-> None, path |-> "none",
               result_types |-> NoResultTypes]
    /\ world = [cls |-> ClassAttributes,
                inst |-> [i \in Instances |->
                            [attr \in DOMAIN ClassAttributes |-> NotSet(attr)]],
                solo |-> [i \in Instances |-> ClassAttributes],
                ret |-> None, solo_ret |-> None,
                types |-> NoResultTypes, solo_types |-> NoResultTypes,
                who |-> 0, calls |-> 0]
    /\ hist = Idle /\ asked = Idle /\ heap = Idle

\* decode on object i: every path assigns self.temp_frame or leaves the
\* object it already refers to in place, and a frame made while the
\* attribute reads None (the class's) is assigned to the object
TwoDecode(i, data) ==
    /\ world.calls < MaxCalls
    /\ \E out \in {decode(getattr(world, i, "temp_frame"), getattr(world, i, "delimiter"),
                         getattr(world, i, "packet_timeout"), data)},
          alone \in {decode(world.solo[i].temp_frame, world.solo[i].delimiter,
                            world.solo[i].packet_timeout, data)} :
        world' = [setattr(world, i, "temp_frame", out.temp_frame) EXCEPT
                    !.solo[i].temp_frame = alone.temp_frame,
                    !.ret = out.ret, !.solo_ret = alone.ret,
                    !.types = NoResultTypes, !.solo_types = NoResultTypes,
                    !.who = i, !.calls = @ + 1]
    /\ UNCHANGED <<temp_frame, prefix, delimiter, packet_timeout, last, pieces, run,
                   hist, asked, heap>>

\* set_settings on object i: an assignment for each key that is present,
\* for the delimiter only when the selection is a label
TwoSetSettings(i, settings) ==
    /\ world.calls < MaxCalls
    /\ LET w1 == IF settings.prefix # NoKey
                 THEN setattr(world, i, "prefix", settings.prefix) ELSE world
           w2 == IF settings.timeout # Absent
                 THEN setattr(w1, i, "packet_timeout", settings.timeout) ELSE w1
           w3 == IF settings.delimiter # NoKey
                    /\ settings.delimiter \in DOMAIN DELIMITER_CHOICES
                 THEN setattr(w2, i, "delimiter", DELIMITER_CHOICES[settings.delimiter])
                 ELSE w2
           alone == [world.solo[i] EXCEPT
                       !.prefix = set_prefix(settings, @),
                       !.packet_timeout = set_packet_timeout(settings, @),
                       !.delimiter = set_delimiter(settings, @)]
       IN  world' = [w3 EXCEPT
                       !.solo[i] = alone,
                       !.ret = None, !.solo_ret = None,
                       !.types = result_types(getattr(w3, i, "prefix")),
                       !.solo_types = result_types(alone.prefix),
                       !.who = i, !.calls = @ + 1]
    /\ UNCHANGED <<temp_frame, prefix, delimiter, packet_timeout, last, pieces, run,
                   hist, asked, heap>>

TwoReset == \E i \in Instances, settings \in TwoSettings : TwoSetSettings(i, settings)
TwoSerial == \E i \in Instances, data \in TwoEvents : TwoDecode(i, data)

NextTwo ==
    \/ TwoReset
    \/ TwoSerial

SpecTwo == InitTwo /\ [][NextTwo]_vars

\* C16: with the calls of two objects in any order, each object's pending
\* frame and settings, and what each call returns, are those of the same
\* calls on an object that is alone, and the attributes of the class stay
\* as they were defined.
C16_InstanceIsolation ==
    /\ world.cls = ClassAttributes
    /\ \A i \in Instances :
        \A attr \in DOMAIN ClassAttributes :
            getattr(world, i, attr) = world.solo[i][attr]
    /\ world.ret = world.solo_ret
    /\ world.types = world.solo_types

C16_Witness ==
    /\ world.who = 2
    /\ world.ret # None
    /\ Len(world.ret[1].str) = 2
    /\ ~world.inst[2]["delimiter"].set
    /\ getattr(world, 1, "delimiter") = 59
    /\ getattr(world, 1, "prefix") = "> "
    /\ getattr(world, 1, "temp_frame") # None
    /\ getattr(world, 1, "temp_frame")[1].str = <<10>>

====
